---- MODULE Spec2Model ----
(***************************************************************************)
(* A model of the three scripts of the repository: story-teller.py (the    *)
(* story variant on OpenRouter), story-teller-local.py (the story variant  *)
(* on local models) and tavern.py (the character card variant).            *)
(*                                                                         *)
(* Python values are tagged records.  A str is a sequence of one-character *)
(* strings; a text produced by a language model is a document whose JSON   *)
(* reading is known (Json, Fenced, Prose below).  Floats are counted in    *)
(* tenths, so that 0.5 is 5.                                               *)
(***************************************************************************)
EXTENDS Integers, Sequences, FiniteSets, TLC

VARIABLES variant, apiKey, pc, userInput, inTry, clients, tasks, crew,
          taskState, invoked, outputs, result, extracted, extractLog,
          parsed, card, stdout, files, exc

vars == <<variant, apiKey, pc, userInput, inTry, clients, tasks, crew,
          taskState, invoked, outputs, result, extracted, extractLog,
          parsed, card, stdout, files, exc>>

\* ------------------------------------------------------------------ bounds

\* Longest line typed by the operator.
MaxInputLen == 2
\* Longest generated character name (the named examples are longer).
MaxNameLen == 2
\* Most keys of a JSON object answered by the card creator.
MaxFields == 2

\* ------------------------------------------------------------------ strings

InputAlphabet == {"a", " "}
NameAlphabet == {"A", " "}

RECURSIVE StringsUpTo(_, _)
StringsUpTo(alphabet, n) ==
    IF n = 0 THEN {<< >>}
    ELSE LET shorter == StringsUpTo(alphabet, n - 1)
         IN shorter \cup {Append(s, c) : s \in {t \in shorter : Len(t) = n - 1}, c \in alphabet}

UpperCase == <<"A", "B", "C", "R", "S", "U", "Z">>
LowerCase == <<"a", "b", "c", "r", "s", "u", "z">>

\* str.lower(), one character.
LowerChar(c) ==
    IF \E i \in DOMAIN UpperCase : UpperCase[i] = c
    THEN LowerCase[CHOOSE i \in DOMAIN UpperCase : UpperCase[i] = c]
    ELSE c

\* str.lower()
Lower(s) == [i \in DOMAIN s |-> LowerChar(s[i])]

\* str.replace(old, new) for one-character old and new.
Replace(s, old, new) == [i \in DOMAIN s |-> IF s[i] = old THEN new ELSE s[i]]

RECURSIVE LStrip(_)
LStrip(s) == IF s # << >> /\ Head(s) = " " THEN LStrip(Tail(s)) ELSE s

RECURSIVE RStrip(_)
RStrip(s) == IF s # << >> /\ s[Len(s)] = " " THEN RStrip(SubSeq(s, 1, Len(s) - 1)) ELSE s

\* str.strip()
Strip(s) == RStrip(LStrip(s))

\* needle in haystack
Contains(haystack, needle) ==
    \E i \in 0..(Len(haystack) - Len(needle)) :
        SubSeq(haystack, i + 1, i + Len(needle)) = needle

Zara == <<"Z", "a", "r", "a">>
Bold == <<"b", "o", "l", "d">>
SirReginald == <<"S", "i", "r", " ", "R", "e", "g", "i", "n", "a", "l", "d">>
UnnamedCharacter ==
    <<"U", "n", "n", "a", "m", "e", "d", " ", "C", "h", "a", "r", "a", "c", "t", "e", "r">>
FileSuffix ==
    <<"_", "c", "h", "a", "r", "a", "c", "t", "e", "r", "_", "c", "a", "r", "d", ".", "j", "s", "o", "n">>

\* ------------------------------------------------------------------ values

None == [t |-> "none"]
PyStr(s) == [t |-> "str", s |-> s]
\* A float, in tenths.
PyNum(n) == [t |-> "num", n |-> n]
PyInt(n) == [t |-> "int", n |-> n]
PyBool(b) == [t |-> "bool", b |-> b]
PyList(l) == [t |-> "list", l |-> l]
PyDict(m) == [t |-> "dict", m |-> m]
\* The str that holds a whole document.
PyText(d) == [t |-> "text", doc |-> d]
\* An object of the orchestration library: the attributes it exposes, the
\* text of raw_output (when exposed), the outputs of its tasks (when exposed)
\* and the text str() gives.
PyObj(attrs, raw, outs, repr) ==
    [t |-> "obj", attrs |-> attrs, raw_output |-> raw, tasks |-> outs, repr |-> repr]

IsStr(v) == v.t \in {"str", "text"}

\* Documents: the serialisation of a JSON value, a JSON value wrapped in
\* prose or code fences, free prose.
Json(v) == [kind |-> "json", value |-> v]
Fenced(v) == [kind |-> "fenced", value |-> v]
Prose(i) == [kind |-> "prose", id |-> i]
\* What str() gives for an object without a __str__ of its own.
DefaultRepr == [kind |-> "repr"]

\* json.loads: the value, or JSONDecodeError.
JsonLoads(s) ==
    IF s.t = "text" /\ s.doc.kind = "json"
    THEN [ok |-> TRUE, value |-> s.doc.value]
    ELSE [ok |-> FALSE, exc |-> "JSONDecodeError"]

\* dict.get(key, default)
DictGet(d, key, default) == IF key \in DOMAIN d.m THEN d.m[key] ELSE default

\* ------------------------------------------------------------------ result extraction

Returned(v) == [ok |-> TRUE, val |-> v]
Raised(e) == [ok |-> FALSE, exc |-> e]

\* hasattr(v, attr): only library objects carry the attributes the scripts probe.
HasAttr(v, attr) == v.t = "obj" /\ attr \in v.attrs

\* str(v), for the values that reach it.
Str(v) ==
    IF IsStr(v) THEN v
    ELSE IF v.t = "list" /\ v.l = << >> THEN PyText(Json(PyList(<< >>)))
    ELSE PyText(DefaultRepr)

\* tavern.py: get_task_result
get_task_result(task_output) ==
    IF IsStr(task_output) THEN Returned(task_output)
    ELSE IF HasAttr(task_output, "raw_output") THEN Returned(PyText(task_output.raw_output))
    ELSE Returned(Str(task_output))

\* story-teller.py: get_task_result
story_get_task_result(task_output) ==
    IF HasAttr(task_output, "raw_output") THEN Returned(PyText(task_output.raw_output))
    ELSE Raised("AttributeError")

\* ------------------------------------------------------------------ character card

TalkativenessDefault == 5
DepthDefault == 1
ChatStamp == PyStr(<<"Character - ", "now">>)
DateStamp == PyStr(<<"now">>)
EmptyStr == PyStr(<< >>)
EmptyList == PyList(<< >>)

\* A slip: the notes of the nested record are taken from the description.
create_character_card_notes_from_description(name, description, personality, scenario, first_mes, mes_example, creatorcomment, chat, talkativeness, fav, tags, create_date) ==
    [ name |-> name,
      description |-> description,
      personality |-> personality,
      scenario |-> scenario,
      first_mes |-> first_mes,
      mes_example |-> mes_example,
      creatorcomment |-> creatorcomment,
      avatar |-> PyStr(<<"none">>),
      chat |-> chat,
      talkativeness |-> talkativeness,
      fav |-> fav,
      tags |-> tags,
      spec |-> PyStr(<<"chara_card_v2">>),
      spec_version |-> PyStr(<<"2.0">>),
      data |-> [ name |-> name,
                 description |-> description,
                 personality |-> personality,
                 scenario |-> scenario,
                 first_mes |-> first_mes,
                 mes_example |-> mes_example,
                 creator_notes |-> description,
                 system_prompt |-> EmptyStr,
                 post_history_instructions |-> EmptyStr,
                 tags |-> tags,
                 creator |-> EmptyStr,
                 character_version |-> EmptyStr,
                 alternate_greetings |-> EmptyList,
                 extensions |-> [ talkativeness |-> talkativeness,
                                  fav |-> fav,
                                  world |-> EmptyStr,
                                  depth_prompt |-> [ prompt |-> EmptyStr,
                                                     depth |-> PyInt(DepthDefault),
                                                     role |-> PyStr(<<"system">>) ] ] ],
      create_date |-> create_date ]

create_character_card(name, description, personality, scenario, first_mes, mes_example, creatorcomment, chat, talkativeness, fav, tags, create_date) ==
    [ name |-> name,
      description |-> description,
      personality |-> personality,
      scenario |-> scenario,
      first_mes |-> first_mes,
      mes_example |-> mes_example,
      creatorcomment |-> creatorcomment,
      avatar |-> PyStr(<<"none">>),
      chat |-> chat,
      talkativeness |-> talkativeness,
      fav |-> fav,
      tags |-> tags,
      spec |-> PyStr(<<"chara_card_v2">>),
      spec_version |-> PyStr(<<"2.0">>),
      data |-> [ name |-> name,
                 description |-> description,
                 personality |-> personality,
                 scenario |-> scenario,
                 first_mes |-> first_mes,
                 mes_example |-> mes_example,
                 creator_notes |-> creatorcomment,
                 system_prompt |-> EmptyStr,
                 post_history_instructions |-> EmptyStr,
                 tags |-> tags,
                 creator |-> EmptyStr,
                 character_version |-> EmptyStr,
                 alternate_greetings |-> EmptyList,
                 extensions |-> [ talkativeness |-> talkativeness,
                                  fav |-> fav,
                                  world |-> EmptyStr,
                                  depth_prompt |-> [ prompt |-> EmptyStr,
                                                     depth |-> PyInt(DepthDefault),
                                                     role |-> PyStr(<<"system">>) ] ] ],
      create_date |-> create_date ]

\* tavern.py main: the defaults set before the agents are defined.
DefaultTalkativeness == PyNum(TalkativenessDefault)
DefaultFav == PyBool(FALSE)
DefaultTags == EmptyList
DefaultName == PyStr(UnnamedCharacter)

\* A slip: the personality is read under the key of the description.
FinalCardSwapped(character_card) ==
    create_character_card(
        DictGet(character_card, "name", DefaultName),
        DictGet(character_card, "description", EmptyStr),
        DictGet(character_card, "description", EmptyStr),
        DictGet(character_card, "scenario", EmptyStr),
        DictGet(character_card, "first_message", EmptyStr),
        DictGet(character_card, "example_message", EmptyStr),
        DictGet(character_card, "creator_comment", EmptyStr),
        ChatStamp,
        DictGet(character_card, "talkativeness", DefaultTalkativeness),
        DictGet(character_card, "fav", DefaultFav),
        DictGet(character_card, "tags", DefaultTags),
        DateStamp)

\* tavern.py main: the final card, from the parsed mapping.
FinalCard(character_card) ==
    create_character_card(
        DictGet(character_card, "name", DefaultName),
        DictGet(character_card, "description", EmptyStr),
        DictGet(character_card, "personality", EmptyStr),
        DictGet(character_card, "scenario", EmptyStr),
        DictGet(character_card, "first_message", EmptyStr),
        DictGet(character_card, "example_message", EmptyStr),
        DictGet(character_card, "creator_comment", EmptyStr),
        ChatStamp,
        DictGet(character_card, "talkativeness", DefaultTalkativeness),
        DictGet(character_card, "fav", DefaultFav),
        DictGet(character_card, "tags", DefaultTags),
        DateStamp)

\* A slip: the raw text is dropped.
FallbackCardNoDescription(character_card_json) ==
    PyDict([k \in {"name"} |-> DefaultName])

\* tavern.py main: the mapping used when the text is not JSON.
FallbackCard(character_card_json) ==
    PyDict([k \in {"name", "description"} |->
              IF k = "name" THEN DefaultName ELSE character_card_json])

\* A slip: the name is not lower-cased.
FileNameNoLower(name) == Replace(name, " ", "_") \o FileSuffix

\* tavern.py main: the name of the output file.
FileName(name) == Replace(Lower(name), " ", "_") \o FileSuffix

\* ------------------------------------------------------------------ agents and tasks

NoKey == "None"
EmptyKey == ""
SomeKey == "sk-or-key"

\* A slip: the key is tested for emptiness, not for None.
KeyIsSetNotEmpty(key) == key # EmptyKey

\* get_api_key, and the test main makes of it: api_key is not None.
KeyIsSet(key) == key # NoKey

\* create_openrouter_llm: ValueError unless the key is a non-empty string.
create_openrouter_llm(key) ==
    IF key \in {NoKey, EmptyKey} THEN Raised("ValueError") ELSE Returned("ChatOpenAI")

\* The agents of a variant, in the order main creates them.
AgentRoles(v) ==
    IF v = "card"
    THEN <<"Card Creator", "Personality Critic", "Scenario Critic", "Message Critic">>
    ELSE <<"Storyteller", "Literary Critic">>

Task(description, agent) == [description |-> description, agent |-> agent]

\* A slip: the revision is given to the critic.
create_tasks_critic_revises(scenario_input, story_agent, critic_agent) ==
    << Task(<<"Create a story based on the following scenario: ">> \o scenario_input
              \o <<". Focus on the themes of fear, friendship, and survival.">>,
            story_agent),
       Task(<<"Review the story and provide detailed feedback">>, critic_agent),
       Task(<<"Rewrite the original story, incorporating all the critical comments">>,
            critic_agent) >>

\* story-teller.py: create_tasks (story-teller-local.py builds the same list inline).
create_tasks(scenario_input, story_agent, critic_agent) ==
    << Task(<<"Create a story based on the following scenario: ">> \o scenario_input
              \o <<". Focus on the themes of fear, friendship, and survival.">>,
            story_agent),
       Task(<<"Review the story and provide detailed feedback">>, critic_agent),
       Task(<<"Rewrite the original story, incorporating all the critical comments">>,
            story_agent) >>

\* tavern.py main: the task list.
card_tasks(user_input, agents) ==
    << Task(<<"Create a character card based on the following user input: ">> \o user_input
              \o <<". Include name, description, personality, scenario, ...">>,
            agents[1]),
       Task(<<"Review and enhance the personality of the character.">>, agents[2]),
       Task(<<"Review and improve the scenario for the character.">>, agents[3]),
       Task(<<"Review and refine the first message and example message">>, agents[4]) >>

\* Crew(agents, tasks, process): the process is sequential when not given.
Crew(agents, tasklist) == [agents |-> agents, tasks |-> tasklist, process |-> "sequential"]

NoCrew == [agents |-> << >>, tasks |-> << >>, process |-> "none"]

\* ------------------------------------------------------------------ the texts the models answer

NameStrings == StringsUpTo(NameAlphabet, MaxNameLen) \cup {Zara, SirReginald}

\* The keys main reads, and one it does not ("first_mes").
AllKeys ==
    {"name", "description", "personality", "scenario", "first_message", "example_message",
     "creator_comment", "talkativeness", "fav", "tags", "first_mes"}

ValuesFor(k) ==
    CASE k = "name" -> {PyStr(n) : n \in NameStrings} \cup {None, PyNum(7)}
      [] k = "description" -> {PyStr(<<"d", "1">>), None}
      [] k = "personality" -> {PyStr(Bold)}
      [] k = "scenario" -> {PyStr(<<"s", "1">>)}
      [] k = "first_message" -> {PyStr(<<"f", "1">>)}
      [] k = "example_message" -> {PyStr(<<"e", "1">>)}
      [] k = "creator_comment" -> {PyStr(<<"c", "1">>)}
      [] k = "talkativeness" -> {PyNum(9), None}
      [] k = "fav" -> {PyBool(TRUE)}
      [] k = "tags" -> {PyList(<<PyStr(<<"t", "1">>)>>)}
      [] OTHER -> {PyStr(<<"x", "1">>)}

RECURSIVE MappingsOver(_)
MappingsOver(S) ==
    IF S = {} THEN {<< >>}
    ELSE LET k == CHOOSE x \in S : TRUE
         IN {[x \in S |-> IF x = k THEN v ELSE m[x]] : m \in MappingsOver(S \ {k}), v \in ValuesFor(k)}

Objects ==
    UNION {MappingsOver(S) : S \in {T \in SUBSET AllKeys : Cardinality(T) <= MaxFields}}

ZaraObject == [k \in {"name", "personality"} |-> IF k = "name" THEN PyStr(Zara) ELSE PyStr(Bold)]

\* What the card creator may answer: a JSON object, JSON that is no object,
\* an object wrapped in prose, prose.
CardTexts ==
    {Json(PyDict(m)) : m \in Objects}
        \cup {Json(EmptyList), Json(PyStr(Zara)), Fenced(PyDict(ZaraObject)), Prose(1)}

\* What a critic of the card may answer: prose, or a card of its own.
CriticTexts == {Prose(2), Json(PyDict([k \in {"name"} |-> PyStr(<<"A">>)]))}

StoryTexts == {Prose(1), Prose(2)}

AnswersFor(v, i) ==
    IF v = "card" THEN (IF i = 1 THEN CardTexts ELSE CriticTexts) ELSE StoryTexts

\* A task's output as the library's object.
TaskOutput(text) == PyObj({"raw_output"}, text, << >>, text)

ResultShapes ==
    {"list_str", "list_obj", "empty_list", "str", "task_output", "crew_obj", "crew_str"}

\* What kickoff returns once every task is done.  The library decides the
\* shape: the outputs of all tasks (as texts or as objects), an empty list,
\* the output of the last task (as text or as an object), or an object that
\* exposes the tasks' outputs.
KickoffResult(shape, outs) ==
    LET n == Len(outs)
        asText == [i \in 1..n |-> PyText(outs[i])]
        asObj == [i \in 1..n |-> TaskOutput(outs[i])]
    IN CASE shape = "list_str" -> PyList(asText)
         [] shape = "list_obj" -> PyList(asObj)
         [] shape = "empty_list" -> EmptyList
         [] shape = "str" -> PyText(outs[n])
         [] shape = "task_output" -> TaskOutput(outs[n])
         [] shape = "crew_obj" -> PyObj({"tasks"}, DefaultRepr, asObj, DefaultRepr)
         [] OTHER -> PyObj({"tasks"}, DefaultRepr, asText, DefaultRepr)

\* ------------------------------------------------------------------ the run

Variants == {"story", "local", "card"}
NoValue == [t |-> "unset"]
Msg(m) == [msg |-> m]
MsgOf(m, v) == [msg |-> m, val |-> v]

ErrKey == "Error: API key is not set."
EnvSet == "Environment variables set successfully."
StoryWelcome == "## Welcome to the story generator."
CardWelcome == "Welcome to the TavernAI character card creator."
Completed == "Process completed."
ErrOccurred == "An error occurred: "
ErrHandling == "An error occurred while handling the result: "
WarnParse == "Error: Unable to parse the character card JSON. Using raw output."

Init ==
    /\ variant \in Variants
    /\ apiKey \in {NoKey, EmptyKey, SomeKey}
    /\ pc = "start"
    /\ userInput = << >>
    /\ inTry = FALSE
    /\ clients = 0
    /\ tasks = << >>
    /\ crew = NoCrew
    /\ taskState = << >>
    /\ invoked = << >>
    /\ outputs = << >>
    /\ result = NoValue
    /\ extracted = NoValue
    /\ extractLog = {}
    /\ parsed = NoValue
    /\ card = NoValue
    /\ stdout = << >>
    /\ files = {}
    /\ exc = "none"

\* An exception leaves the statement: to the handler inside the try, out of
\* main otherwise.
Raise(e) ==
    /\ exc' = e
    /\ pc' = IF inTry THEN "except" ELSE "crashed"

\* main, up to the prompt: the banner and the test of the API key.
Start ==
    /\ pc = "start"
    /\ IF variant = "local"
       THEN /\ stdout' = <<Msg(StoryWelcome)>>
            /\ pc' = "input"
       ELSE LET banner == IF variant = "card" THEN <<Msg(CardWelcome)>> ELSE << >>
                prompt == IF variant = "story" THEN <<Msg(StoryWelcome)>> ELSE << >>
            IN IF KeyIsSet(apiKey)
               THEN /\ stdout' = banner \o <<Msg(EnvSet)>> \o prompt
                    /\ pc' = "input"
               ELSE /\ stdout' = banner \o <<Msg(ErrKey)>>
                    /\ pc' = "done"
    /\ UNCHANGED <<variant, apiKey, userInput, inTry, clients, tasks, crew, taskState, invoked,
                   outputs, result, extracted, extractLog, parsed, card, files, exc>>

\* input(); tavern.py strips the line.  The story scripts enter their try here.
ReadInput ==
    /\ pc = "input"
    /\ \E line \in StringsUpTo(InputAlphabet, MaxInputLen) :
          userInput' = IF variant = "card" THEN Strip(line) ELSE line
    /\ inTry' = (variant # "card")
    /\ pc' = "agents"
    /\ UNCHANGED <<variant, apiKey, clients, tasks, crew, taskState, invoked, outputs, result,
                   extracted, extractLog, parsed, card, stdout, files, exc>>

\* The agents, each with a model client of its own.
CreateAgents ==
    /\ pc = "agents"
    /\ LET llm == IF variant = "local" THEN Returned("Ollama") ELSE create_openrouter_llm(apiKey)
       IN IF llm.ok
          THEN /\ clients' = clients + Len(AgentRoles(variant))
               /\ pc' = "tasks"
               /\ exc' = exc
          ELSE /\ clients' = clients
               /\ Raise(llm.exc)
    /\ UNCHANGED <<variant, apiKey, userInput, inTry, tasks, crew, taskState, invoked, outputs,
                   result, extracted, extractLog, parsed, card, stdout, files>>

\* The task list and the crew.
BuildCrew ==
    /\ pc = "tasks"
    /\ LET roles == AgentRoles(variant)
           list == IF variant = "card" THEN card_tasks(userInput, roles)
                   ELSE create_tasks(userInput, roles[1], roles[2])
       IN /\ tasks' = list
          /\ crew' = Crew(roles, list)
          /\ invoked' = [i \in 1..Len(list) |-> 0]
    /\ pc' = "kickoff"
    /\ UNCHANGED <<variant, apiKey, userInput, inTry, clients, taskState, outputs, result,
                   extracted, extractLog, parsed, card, stdout, files, exc>>

\* crew.kickoff() is called; tavern.py enters its try here.
Kickoff ==
    /\ pc = "kickoff"
    /\ inTry' = TRUE
    /\ taskState' = [i \in 1..Len(crew.tasks) |-> "pending"]
    /\ outputs' = << >>
    /\ pc' = "running"
    /\ UNCHANGED <<variant, apiKey, userInput, clients, tasks, crew, invoked, result, extracted,
                   extractLog, parsed, card, stdout, files, exc>>

\* The sequential process starts the first task not yet run.
ExecStart ==
    /\ pc = "running"
    /\ crew.process = "sequential"
    /\ \A j \in DOMAIN taskState : taskState[j] # "running"
    /\ \E i \in DOMAIN taskState :
          /\ taskState[i] = "pending"
          /\ \A j \in 1..(i - 1) : taskState[j] = "done"
          /\ taskState' = [taskState EXCEPT ![i] = "running"]
          /\ invoked' = [invoked EXCEPT ![i] = @ + 1]
    /\ UNCHANGED <<variant, apiKey, pc, userInput, inTry, clients, tasks, crew, outputs, result,
                   extracted, extractLog, parsed, card, stdout, files, exc>>

\* The model answers and the task completes.
ExecFinish ==
    /\ pc = "running"
    /\ \E i \in DOMAIN taskState :
          /\ taskState[i] = "running"
          /\ taskState' = [taskState EXCEPT ![i] = "done"]
          /\ \E text \in AnswersFor(variant, i) : outputs' = Append(outputs, text)
    /\ UNCHANGED <<variant, apiKey, pc, userInput, inTry, clients, tasks, crew, invoked, result,
                   extracted, extractLog, parsed, card, stdout, files, exc>>

\* The call of the model fails and kickoff raises.
ExecRaise ==
    /\ pc = "running"
    /\ \E i \in DOMAIN taskState :
          /\ taskState[i] = "running"
          /\ taskState' = [taskState EXCEPT ![i] = "failed"]
    /\ Raise("ExecutorError")
    /\ UNCHANGED <<variant, apiKey, userInput, inTry, clients, tasks, crew, invoked, outputs,
                   result, extracted, extractLog, parsed, card, stdout, files>>

\* kickoff returns; main prints "Process completed.".
KickoffReturn ==
    /\ pc = "running"
    /\ taskState # << >>
    /\ \A j \in DOMAIN taskState : taskState[j] = "done"
    /\ \E shape \in ResultShapes : result' = KickoffResult(shape, outputs)
    /\ stdout' = Append(stdout, Msg(Completed))
    /\ pc' = IF variant = "card" THEN "extract" ELSE "handle"
    /\ UNCHANGED <<variant, apiKey, userInput, inTry, clients, tasks, crew, taskState, invoked,
                   outputs, extracted, extractLog, parsed, card, files, exc>>

\* tavern.py main: the text of the card is taken from the result.
ExtractResult ==
    /\ pc = "extract"
    /\ LET arg == IF result.t = "list" /\ Len(result.l) > 0 THEN result.l[1] ELSE result
           ret == get_task_result(arg)
       IN /\ extractLog' = extractLog \cup {[fn |-> "tavern", arg |-> arg, ret |-> ret]}
          /\ extracted' = ret.val
    /\ pc' = "parse"
    /\ UNCHANGED <<variant, apiKey, userInput, inTry, clients, tasks, crew, taskState, invoked,
                   outputs, result, parsed, card, stdout, files, exc>>

\* tavern.py main: json.loads, and the mapping used when it fails.
ParseCard ==
    /\ pc = "parse"
    /\ LET loaded == JsonLoads(extracted)
       IN IF loaded.ok
          THEN /\ parsed' = loaded.value
               /\ stdout' = stdout
          ELSE /\ parsed' = FallbackCard(extracted)
               /\ stdout' = Append(stdout, Msg(WarnParse))
    /\ pc' = "assemble"
    /\ UNCHANGED <<variant, apiKey, userInput, inTry, clients, tasks, crew, taskState, invoked,
                   outputs, result, extracted, extractLog, card, files, exc>>

\* tavern.py main: the final card is assembled and printed.  A parsed value
\* that is no dict has no get.
AssembleCard ==
    /\ pc = "assemble"
    /\ IF parsed.t = "dict"
       THEN /\ card' = FinalCard(parsed)
            /\ stdout' = Append(stdout, MsgOf("Final Character Card:", FinalCard(parsed)))
            /\ pc' = "save"
            /\ exc' = exc
       ELSE /\ card' = card
            /\ stdout' = stdout
            /\ Raise("AttributeError")
    /\ UNCHANGED <<variant, apiKey, userInput, inTry, clients, tasks, crew, taskState, invoked,
                   outputs, result, extracted, extractLog, parsed, files>>

\* tavern.py main: the card is written to its file.  A name that is no str
\* has no lower.
SaveCard ==
    /\ pc = "save"
    /\ IF card.name.t = "str"
       THEN LET file_name == FileName(card.name.s)
            IN /\ files' = files \cup {[name |-> file_name, content |-> card]}
               /\ stdout' = Append(stdout, MsgOf("Character card saved to ", file_name))
               /\ pc' = "done"
               /\ exc' = exc
       ELSE /\ files' = files
            /\ stdout' = stdout
            /\ Raise("AttributeError")
    /\ UNCHANGED <<variant, apiKey, userInput, inTry, clients, tasks, crew, taskState, invoked,
                   outputs, result, extracted, extractLog, parsed, card>>

StoryLabels == <<"Story Output:", "Critique Output:", "Revised Story Output:">>

\* The lines handle_result prints: each label, then the extracted text, up
\* to the first extraction that raises.
RECURSIVE StoryLines(_, _)
StoryLines(rets, i) ==
    IF i > Len(rets) THEN << >>
    ELSE <<Msg(StoryLabels[i])>> \o
         (IF rets[i].ok THEN <<MsgOf("text", rets[i].val)>> \o StoryLines(rets, i + 1)
          ELSE <<MsgOf(ErrHandling, rets[i].exc)>>)

\* story-teller.py: handle_result
StoryHandleResult ==
    /\ pc = "handle"
    /\ variant = "story"
    /\ IF HasAttr(result, "tasks")
       THEN LET rets == [i \in 1..3 |-> story_get_task_result(result.tasks[i])]
                called == {i \in 1..3 : \A j \in 1..(i - 1) : rets[j].ok}
            IN /\ stdout' = stdout \o StoryLines(rets, 1)
               /\ extractLog' = extractLog \cup
                     {[fn |-> "story", arg |-> result.tasks[i], ret |-> rets[i]] : i \in called}
       ELSE /\ stdout' = stdout \o <<Msg("Unexpected result format:"), MsgOf("result", result)>>
            /\ extractLog' = extractLog
    /\ pc' = "done"
    /\ UNCHANGED <<variant, apiKey, userInput, inTry, clients, tasks, crew, taskState, invoked,
                   outputs, result, extracted, parsed, card, files, exc>>

\* result[i] in story-teller-local.py: an item of a list, a character of a
\* text (the stories answered are longer than three characters); IndexError
\* past the end of a list, TypeError on an object.
Subscript(v, i) ==
    IF v.t = "list"
    THEN (IF i <= Len(v.l) THEN Returned(v.l[i]) ELSE Raised("IndexError"))
    ELSE IF v.t = "text" THEN Returned([t |-> "char", of |-> v.doc, at |-> i])
    ELSE Raised("TypeError")

\* story-teller-local.py main: the three results are printed.
LocalHandleResult ==
    /\ pc = "handle"
    /\ variant = "local"
    /\ LET rets == [i \in 1..3 |-> Subscript(result, i)]
       IN IF \A i \in 1..3 : rets[i].ok
          THEN /\ stdout' = stdout \o StoryLines(rets, 1)
               /\ pc' = "done"
               /\ exc' = exc
          ELSE LET bad == CHOOSE i \in 1..3 : ~rets[i].ok /\ \A j \in 1..(i - 1) : rets[j].ok
                   lines == StoryLines(rets, 1)
               IN /\ stdout' = stdout \o SubSeq(lines, 1, Len(lines) - 1)
                  /\ Raise(rets[bad].exc)
    /\ UNCHANGED <<variant, apiKey, userInput, inTry, clients, tasks, crew, taskState, invoked,
                   outputs, result, extracted, extractLog, parsed, card, files>>

\* A slip: the handler calls kickoff once more after an error of the executor.
ExceptRetry ==
    /\ pc = "except"
    /\ stdout' = Append(stdout, MsgOf(ErrOccurred, exc))
    /\ pc' = IF exc = "ExecutorError" /\ \A i \in DOMAIN invoked : invoked[i] < 2
             THEN "kickoff" ELSE "done"
    /\ UNCHANGED <<variant, apiKey, userInput, inTry, clients, tasks, crew, taskState, invoked,
                   outputs, result, extracted, extractLog, parsed, card, files, exc>>

\* main: except Exception as e: the message is printed and main returns.
Except ==
    /\ pc = "except"
    /\ stdout' = Append(stdout, MsgOf(ErrOccurred, exc))
    /\ pc' = "done"
    /\ UNCHANGED <<variant, apiKey, userInput, inTry, clients, tasks, crew, taskState, invoked,
                   outputs, result, extracted, extractLog, parsed, card, files, exc>>

Next ==
    \/ Start
    \/ ReadInput
    \/ CreateAgents
    \/ BuildCrew
    \/ Kickoff
    \/ ExecStart
    \/ ExecFinish
    \/ ExecRaise
    \/ KickoffReturn
    \/ ExtractResult
    \/ ParseCard
    \/ AssembleCard
    \/ SaveCard
    \/ StoryHandleResult
    \/ LocalHandleResult
    \/ Except

Spec == Init /\ [][Next]_vars

\* ------------------------------------------------------------------ claims

Running == {i \in DOMAIN taskState : taskState[i] = "running"}

\* C1: in every run the tasks are executed strictly in list order: a task
\* has started only when every task before it is done, at most one task is
\* in progress, and no task is invoked more than once, whether the run ends
\* normally or with an error of the executor.
C1_SequentialOnce ==
    /\ Cardinality(Running) <= 1
    /\ \A i \in DOMAIN taskState :
          taskState[i] # "pending" => \A j \in 1..(i - 1) : taskState[j] = "done"
    /\ \A i \in DOMAIN invoked : invoked[i] <= 1
    /\ \A i \in DOMAIN taskState : (taskState[i] # "pending") <=> (invoked[i] = 1)
    /\ pc \in {"done", "crashed"} => Running = {}

\* A run that ended with an error of the executor in its second task.
C1_Witness ==
    /\ pc = "done"
    /\ exc = "ExecutorError"
    /\ Len(taskState) >= 2
    /\ taskState[1] = "done"
    /\ taskState[2] = "failed"

\* C2: in the story variants, for a non-empty scenario, the task list has
\* exactly three tasks, the description of the first contains the scenario
\* as typed, the first and the third are the storyteller's and the second is
\* the critic's.
C2_StoryTasks ==
    (variant \in {"story", "local"} /\ tasks # << >> /\ userInput # << >>) =>
        /\ Len(tasks) = 3
        /\ Contains(tasks[1].description, userInput)
        /\ tasks[1].agent = "Storyteller"
        /\ tasks[3].agent = tasks[1].agent
        /\ tasks[2].agent = "Literary Critic"
        /\ tasks[2].agent # tasks[1].agent

\* The story variant built its tasks for a scenario of two characters.
C2_Witness ==
    /\ variant = "story"
    /\ Len(userInput) = 2
    /\ Len(tasks) = 3

\* The fields of the card filled from the mapping: the field, the key read.
MappedFields ==
    { <<"name", "name">>, <<"description", "description">>, <<"personality", "personality">>,
      <<"scenario", "scenario">>, <<"first_mes", "first_message">>,
      <<"mes_example", "example_message">>, <<"creatorcomment", "creator_comment">>,
      <<"talkativeness", "talkativeness">>, <<"fav", "fav">>, <<"tags", "tags">> }

\* The defaults as documented: empty strings and lists, 0.5, false.
DocumentedDefault(field) ==
    CASE field = "talkativeness" -> PyNum(5)
      [] field = "fav" -> PyBool(FALSE)
      [] field = "tags" -> PyList(<< >>)
      [] OTHER -> PyStr(<< >>)

\* The defaults of the code: as documented, but for the name.
CodeDefault(field) ==
    IF field = "name"
    THEN PyStr(<<"U", "n", "n", "a", "m", "e", "d", " ", "C", "h", "a", "r", "a", "c", "t", "e", "r">>)
    ELSE DocumentedDefault(field)

Assembled == card # NoValue

\* C3, as claimed: every field of the assembled card is the value of the
\* mapping when its key is present and the documented default (empty string
\* or list, 0.5, false) otherwise; with only name "Zara" and personality
\* "bold" given, these two are kept and the others are defaults.
C3_AsClaimed ==
    Assembled =>
        /\ \A f \in MappedFields :
              card[f[1]] = IF f[2] \in DOMAIN parsed.m THEN parsed.m[f[2]]
                           ELSE DocumentedDefault(f[1])
        /\ parsed.m = ZaraObject =>
              /\ card.name = PyStr(Zara)
              /\ card.personality = PyStr(Bold)

\* C3, amended: every field of the assembled card is the value of the
\* mapping when its key is present and its default otherwise, where the
\* default of the name is "Unnamed Character" and the other defaults are the
\* documented ones (empty string or list, 0.5, false); with only name "Zara"
\* and personality "bold" given, these two are kept and the others are
\* defaults.
C3_Assembly ==
    Assembled =>
        /\ \A f \in MappedFields :
              card[f[1]] = IF f[2] \in DOMAIN parsed.m THEN parsed.m[f[2]]
                           ELSE CodeDefault(f[1])
        /\ parsed.m = << >> =>
              \A f \in MappedFields : card[f[1]] = CodeDefault(f[1])
        /\ parsed.m = ZaraObject =>
              /\ card.name = PyStr(Zara)
              /\ card.personality = PyStr(Bold)
              /\ \A f \in MappedFields :
                    f[1] \notin {"name", "personality"} => card[f[1]] = DocumentedDefault(f[1])

\* A card was assembled from the mapping that holds only name "Zara" and
\* personality "bold".
C3_Witness == Assembled /\ parsed.m = ZaraObject

CardKeys ==
    {"name", "description", "personality", "scenario", "first_mes", "mes_example",
     "creatorcomment", "avatar", "chat", "talkativeness", "fav", "tags", "spec",
     "spec_version", "data", "create_date"}

DataKeys ==
    {"name", "description", "personality", "scenario", "first_mes", "mes_example",
     "creator_notes", "system_prompt", "post_history_instructions", "tags", "creator",
     "character_version", "alternate_greetings", "extensions"}

ExtensionKeys == {"talkativeness", "fav", "world", "depth_prompt"}

\* C4: whatever the card creator answered, the assembled card has the fixed
\* keys at top level and in "data", and none of its fields is null.
C4_NoMissingNoNull ==
    Assembled =>
        /\ DOMAIN card = CardKeys
        /\ DOMAIN card.data = DataKeys
        /\ DOMAIN card.data.extensions = ExtensionKeys
        /\ \A k \in CardKeys : card[k] # None
        /\ \A k \in DataKeys : card.data[k] # None
        /\ \A k \in ExtensionKeys : card.data.extensions[k] # None

ParseFailed == extracted # NoValue /\ extracted.doc.kind # "json"

UnnamedFile ==
    <<"u", "n", "n", "a", "m", "e", "d", "_", "c", "h", "a", "r", "a", "c", "t", "e", "r",
      "_", "c", "h", "a", "r", "a", "c", "t", "e", "r", "_", "c", "a", "r", "d", ".", "j", "s", "o", "n">>

\* C5: in the card variant, when the text taken from the result is not
\* JSON, the warning is printed, the whole text becomes the description, the
\* other fields are defaults (nothing is extracted from the text), and the
\* run goes on to its end: the card is printed and written to its file.
C5_ParseFallback ==
    ParseFailed =>
        /\ pc \notin {"except", "crashed"}
        /\ exc = "none"
        /\ pc \in {"assemble", "save", "done"} =>
              /\ \E i \in DOMAIN stdout : stdout[i] = Msg(WarnParse)
              /\ DOMAIN parsed.m = {"name", "description"}
        /\ pc \in {"save", "done"} =>
              /\ card.description = extracted
              /\ \A f \in MappedFields :
                    f[1] # "description" => card[f[1]] = CodeDefault(f[1])
              /\ \E i \in DOMAIN stdout : stdout[i] = MsgOf("Final Character Card:", card)
        /\ pc = "done" => files = {[name |-> UnnamedFile, content |-> card]}

\* A run ended after the card creator answered an object wrapped in prose.
C5_Witness ==
    /\ pc = "done"
    /\ extracted # NoValue
    /\ extracted.doc.kind = "fenced"
    /\ files # {}

\* C6: every exception raised in a run is caught by main and its message
\* printed; no file is written then, and the run ends without a retry.
C6_AllCaught ==
    /\ pc # "crashed"
    /\ exc # "none" =>
          /\ files = {}
          /\ pc \in {"except", "done"}
          /\ pc = "done" => stdout[Len(stdout)] = MsgOf(ErrOccurred, exc)
          /\ \A i \in DOMAIN invoked : invoked[i] <= 1

\* C7: with the API key unset, a run of the story or the card variant
\* prints the error and ends before any model client is constructed or any
\* call of a model is made, and writes no file.
C7_MissingKey ==
    (variant \in {"story", "card"} /\ apiKey = NoKey) =>
        /\ pc \in {"start", "done"}
        /\ clients = 0
        /\ \A i \in DOMAIN invoked : invoked[i] = 0
        /\ taskState = << >>
        /\ files = {}
        /\ pc = "done" => stdout # << >> /\ stdout[Len(stdout)] = Msg(ErrKey)

\* The card variant ended with the key unset.
C7_Witness == variant = "card" /\ apiKey = NoKey /\ pc = "done"

\* Extraction by the function of the script that made the call.
ExtractAgain(fn, v) == IF fn = "tavern" THEN get_task_result(v) ELSE story_get_task_result(v)

\* C8: every extraction made returns the input itself when it is a text,
\* else the raw output when the object exposes one, else a non-empty text;
\* and extracting from what was returned returns it unchanged.
C8_Extraction ==
    \A e \in extractLog :
        /\ e.ret.ok
        /\ IsStr(e.arg) => e.ret.val = e.arg
        /\ (~IsStr(e.arg) /\ HasAttr(e.arg, "raw_output")) =>
              e.ret.val = PyText(e.arg.raw_output)
        /\ (~IsStr(e.arg) /\ ~HasAttr(e.arg, "raw_output")) =>
              IsStr(e.ret.val) /\ e.ret.val # PyStr(<< >>)
        /\ ExtractAgain(e.fn, e.ret.val) = Returned(e.ret.val)

SirReginaldFile ==
    <<"s", "i", "r", "_", "r", "e", "g", "i", "n", "a", "l", "d",
      "_", "c", "h", "a", "r", "a", "c", "t", "e", "r", "_", "c", "a", "r", "d", ".", "j", "s", "o", "n">>

\* C9: the card is written to the file named by its name in lower case,
\* every space replaced by an underscore, followed by
\* "_character_card.json"; for "Sir Reginald" this is
\* sir_reginald_character_card.json.  A run of the card variant that ends
\* without an exception has written this one file.
C9_FileName ==
    /\ \A f \in files :
          LET n == f.content.name.s
          IN /\ f.content = card
             /\ Len(f.name) = Len(n) + 20
             /\ \A i \in 1..Len(n) :
                   /\ n[i] = " " => f.name[i] = "_"
                   /\ n[i] # " " => f.name[i] = LowerChar(n[i])
                   /\ \A u \in DOMAIN UpperCase : f.name[i] # UpperCase[u]
             /\ SubSeq(f.name, Len(n) + 1, Len(f.name)) =
                   <<"_", "c", "h", "a", "r", "a", "c", "t", "e", "r",
                     "_", "c", "a", "r", "d", ".", "j", "s", "o", "n">>
             /\ n = SirReginald => f.name = SirReginaldFile
    /\ Cardinality(files) <= 1
    /\ (variant = "card" /\ pc = "done" /\ exc = "none" /\ apiKey # NoKey) => files # {}

\* The card of "Sir Reginald" was written.
C9_Witness == \E f \in files : f.content.name = PyStr(SirReginald)

\* The card that the text of an answer gives.
CardOf(text) ==
    IF text.kind # "json" THEN FinalCard(FallbackCard(PyText(text)))
    ELSE IF text.value.t = "dict" THEN FinalCard(text.value)
    ELSE NoValue

\* C10: whatever kickoff returns after the four tasks, the stored card is
\* the one assembled from the output of the first task; the outputs of the
\* three critics change no field of it.
C10_FirstTaskOnly ==
    (variant = "card" /\ Assembled) => card = CardOf(outputs[1])

\* The nested "data" record of a card repeats its top-level fields.
Mirrors(c) ==
    /\ c.data.name = c.name
    /\ c.data.description = c.description
    /\ c.data.personality = c.personality
    /\ c.data.scenario = c.scenario
    /\ c.data.first_mes = c.first_mes
    /\ c.data.mes_example = c.mes_example
    /\ c.data.tags = c.tags
    /\ c.data.creator_notes = c.creatorcomment
    /\ c.data.extensions.talkativeness = c.talkativeness
    /\ c.data.extensions.fav = c.fav

\* C11: in every assembled card, printed or written, the nested "data"
\* record mirrors the top level: name, description, personality, scenario,
\* first_mes, mes_example and tags are equal to the top-level fields of the
\* same name, creator_notes to creatorcomment, and extensions.talkativeness
\* and extensions.fav to talkativeness and fav.
C11_DataMirrors ==
    /\ Assembled => Mirrors(card)
    /\ \A f \in files : Mirrors(f.content)
    /\ \A i \in DOMAIN stdout :
          stdout[i].msg = "Final Character Card:" => Mirrors(stdout[i].val)

\* A card was written whose creator comment and talkativeness were both
\* answered by the card creator.
C11_Witness ==
    \E f \in files :
        /\ f.content.creatorcomment = PyStr(<<"c", "1">>)
        /\ f.content.talkativeness = PyNum(9)
        /\ f.content.description = PyStr(<< >>)

====
